---- MODULE Spec2Model ----
(***************************************************************************)
(* Model of the YSB MT5 worker (src/worker/main.py): one HTTP endpoint,    *)
(* POST /mt5/login, served by a pool of worker threads that all drive the  *)
(* same process-wide MetaTrader5 terminal binding.                         *)
(*                                                                         *)
(* Python strings that the code only compares or forwards are TLA+         *)
(* strings.  The request's login field is parsed by int(), so it is a      *)
(* sequence of one-character strings.  Python values that cross the        *)
(* binding's boundary are tagged records (PyNone, PyBool, AccountInfo).    *)
(***************************************************************************)
EXTENDS Integers, Sequences, FiniteSets, TLC

\* Threads of the serving layer that may run mt5_login at the same time.
NumWorkers == 2

Workers == 1..NumWorkers

----------------------------------------------------------------------------
(* Process start: API_KEY = os.getenv("MT5_WORKER_API_KEY", "change-me")    *)

Environs ==
    { <<>>,
      [MT5_WORKER_API_KEY |-> "s3cret"] }

Getenv(environ, name, default) ==
    IF name \in DOMAIN environ THEN environ[name] ELSE default

----------------------------------------------------------------------------
(* Request inputs                                                          *)

\* x_api_key: str = Header(default="") -- a missing header arrives as "".
Headers == {"", "change-me", "s3cret"}

\* LoginReq bodies (server, login, password: all str).
Bodies ==
    { [server |-> "Demo", login |-> <<"1","2","3","4","5">>,     password |-> "pw"],
      [server |-> "Live", login |-> <<" ","-","7","_","0"," ">>, password |-> "pw2"],
      [server |-> "Live", login |-> <<"1","2","a">>,             password |-> "pw"],
      [server |-> "Demo", login |-> <<>>,                        password |-> "pw2"] }

NoBody == [server |-> "", login |-> <<>>, password |-> ""]

----------------------------------------------------------------------------
(* int(str): surrounding whitespace is stripped, one optional sign, then   *)
(* decimal digits, single underscores allowed between digits.             *)

Digits == {"0","1","2","3","4","5","6","7","8","9"}

DigitVal(c) ==
    CASE c = "0" -> 0 [] c = "1" -> 1 [] c = "2" -> 2 [] c = "3" -> 3
      [] c = "4" -> 4 [] c = "5" -> 5 [] c = "6" -> 6 [] c = "7" -> 7
      [] c = "8" -> 8 [] c = "9" -> 9

IsSpace(c) == c \in {" ", "\t", "\n", "\r"}

RECURSIVE LStrip(_)
LStrip(s) ==
    IF s # <<>> /\ IsSpace(Head(s)) THEN LStrip(Tail(s)) ELSE s

RECURSIVE RStrip(_)
RStrip(s) ==
    IF s # <<>> /\ IsSpace(s[Len(s)]) THEN RStrip(SubSeq(s, 1, Len(s) - 1)) ELSE s

Strip(s) == RStrip(LStrip(s))

HasSign(s) == s # <<>> /\ Head(s) \in {"+", "-"}

Unsigned(s) == IF HasSign(s) THEN Tail(s) ELSE s

ValidDigits(d) ==
    /\ d # <<>>
    /\ \A i \in DOMAIN d : d[i] \in Digits \cup {"_"}
    /\ d[1] # "_"
    /\ d[Len(d)] # "_"
    /\ \A i \in 1..(Len(d) - 1) : ~(d[i] = "_" /\ d[i + 1] = "_")

RECURSIVE Magnitude(_, _)
Magnitude(d, acc) ==
    IF d = <<>> THEN acc
    ELSE IF Head(d) = "_" THEN Magnitude(Tail(d), acc)
    ELSE Magnitude(Tail(d), 10 * acc + DigitVal(Head(d)))

\* TRUE when int(s) returns, FALSE when it raises ValueError.
IntParses(s) == ValidDigits(Unsigned(Strip(s)))

\* int() that loses the sign.
IntOfMagnitude(s) == Magnitude(Unsigned(Strip(s)), 0)

IntOf(s) ==
    LET t == Strip(s)
        m == Magnitude(Unsigned(t), 0)
    IN  IF HasSign(t) /\ Head(t) = "-" THEN 0 - m ELSE m

----------------------------------------------------------------------------
(* Python values returned by the binding                                   *)

PyNone == [type |-> "NoneType"]
PyBool(b) == [type |-> "bool", val |-> b]

\* A named tuple: field names and the values at the same positions.
AccountInfos ==
    { [type |-> "AccountInfo",
       fields |-> <<"balance", "currency">>,
       values |-> <<1000, "USD">>] }

\* bool(v) as used by `if info`.
Truthy(v) ==
    CASE v.type = "NoneType" -> FALSE
      [] v.type = "bool" -> v.val
      [] v.type = "AccountInfo" -> Len(v.values) > 0

\* A conversion that keeps only the first field of the record.
AsDictFirstField(info) ==
    [k \in {info.fields[1]} |-> info.values[1]]

\* namedtuple._asdict(): a mapping from each field name to its value.
AsDict(info) ==
    [k \in {info.fields[i] : i \in DOMAIN info.fields} |->
        info.values[CHOOSE i \in DOMAIN info.fields : info.fields[i] = k]]

EmptyDict == <<>>

\* str(e) of the exception an import of the binding can raise.
ImportCauses == {"No module named 'MetaTrader5'"}

\* Exceptions account_info() can raise.
BindingErrors == {"RuntimeError"}

----------------------------------------------------------------------------
(* Outcomes of a request                                                   *)

NoOutcome == [status |-> 0]

\* raise HTTPException(status_code=401, detail="invalid api key")
Rejection == [status |-> 401, detail |-> "invalid api key"]

\* A returned dict: FastAPI serialises it as the 200 response body.
Returned(body) == [status |-> 200, body |-> body]

\* An exception that leaves mt5_login: an unstructured server error.
Raised(exc) == [status |-> 500, exc |-> exc]

Failure(message) == Returned([ok |-> FALSE, message |-> message])

Success(account_info) == Returned([ok |-> TRUE, account_info |-> account_info])

Call(op, args, ret) == [op |-> op, args |-> args, ret |-> ret]

----------------------------------------------------------------------------
VARIABLES
    API_KEY,     \* the configured key, read once at process start
    terminal,    \* the process-wide terminal session: "down" or "up"
    pc,          \* per worker: where its mt5_login invocation stands
    x_api_key,   \* per worker: the header value of its request
    req,         \* per worker: the body of its request
    mt5,         \* per worker: the local name mt5, "unbound" or "module"
    calls,       \* per worker: the binding calls its request has made
    pending,     \* per worker: the return value or exception in flight
    response     \* per worker: what its request ended with

vars == <<API_KEY, terminal, pc, x_api_key, req, mt5, calls, pending, response>>

Init ==
    /\ API_KEY \in {Getenv(e, "MT5_WORKER_API_KEY", "change-me") : e \in Environs}
    /\ terminal = "down"
    /\ pc = [w \in Workers |-> "idle"]
    /\ x_api_key = [w \in Workers |-> ""]
    /\ req = [w \in Workers |-> NoBody]
    /\ mt5 = [w \in Workers |-> "unbound"]
    /\ calls = [w \in Workers |-> <<>>]
    /\ pending = [w \in Workers |-> NoOutcome]
    /\ response = [w \in Workers |-> NoOutcome]

\* The request ends with `out`: a return or a raise outside the try block.
Finish(w, out) ==
    /\ response' = [response EXCEPT ![w] = out]
    /\ pc' = [pc EXCEPT ![w] = "done"]
    /\ UNCHANGED pending

\* A release written as the last statement of the block instead of a finally
\* clause: an exception skips it.
LeaveUnguarded(w, out) ==
    IF out.status = 500
    THEN Finish(w, out)
    ELSE /\ pending' = [pending EXCEPT ![w] = out]
         /\ pc' = [pc EXCEPT ![w] = "shutdown"]
         /\ UNCHANGED response

\* Control leaves the try block with `out` in flight: the finally clause is next.
Leave(w, out) ==
    /\ pending' = [pending EXCEPT ![w] = out]
    /\ pc' = [pc EXCEPT ![w] = "shutdown"]
    /\ UNCHANGED response

\* Control falls through to the statement at `at`.
Continue(w, at) ==
    /\ pc' = [pc EXCEPT ![w] = at]
    /\ UNCHANGED <<pending, response>>

\* A key check that lets a request without the header through.
KeyMismatchUnlessMissing(h) == h # "" /\ h # API_KEY

\* if x_api_key != API_KEY
KeyMismatch(h) == h # API_KEY

\* mt5_login is entered with a body and a header value; the key is compared.
Request(w) ==
    /\ pc[w] = "idle"
    /\ \E h \in Headers, b \in Bodies :
        /\ x_api_key' = [x_api_key EXCEPT ![w] = h]
        /\ req' = [req EXCEPT ![w] = b]
        /\ IF KeyMismatch(h)
           THEN Finish(w, Rejection)
           ELSE Continue(w, "import")
    /\ UNCHANGED <<API_KEY, terminal, mt5, calls>>

\* An import failure that is not caught.
ImportFailedPropagates(w, e) == Finish(w, Raised("ImportError"))

\* except Exception as e: return {"ok": False, "message": f"... {e}"}
ImportFailed(w, e) == Finish(w, Failure("MetaTrader5 not available: " \o e))

\* try: import MetaTrader5 as mt5
Import(w) ==
    /\ pc[w] = "import"
    /\ \/ /\ mt5' = [mt5 EXCEPT ![w] = "module"]
          /\ Continue(w, "initialize")
       \/ /\ \E e \in ImportCauses : ImportFailed(w, e)
          /\ UNCHANGED mt5
    /\ UNCHANGED <<API_KEY, terminal, x_api_key, req, calls>>

\* initialize() moved inside the try block: its failure runs the finally clause.
AfterInitializeInsideGuard(w, ret) ==
    IF ~Truthy(ret)
    THEN Leave(w, Failure("mt5.initialize failed"))
    ELSE Continue(w, "login")

\* if not <ret>: return {"ok": False, "message": "mt5.initialize failed"}
AfterInitialize(w, ret) ==
    IF ~Truthy(ret)
    THEN Finish(w, Failure("mt5.initialize failed"))
    ELSE Continue(w, "login")

\* initialize() behind a lock held until shutdown().
InitializeSerialized(w) ==
    /\ pc[w] = "initialize"
    /\ \A o \in Workers \ {w} : pc[o] \notin {"login", "account_info", "shutdown"}
    /\ \E ret \in {PyBool(TRUE), PyBool(FALSE)} :
        /\ calls' = [calls EXCEPT ![w] = Append(@, Call("initialize", <<>>, ret))]
        /\ terminal' = IF Truthy(ret) THEN "up" ELSE terminal
        /\ AfterInitialize(w, ret)
    /\ UNCHANGED <<API_KEY, x_api_key, req, mt5>>

\* mt5.initialize() is called; a true result opens the terminal session.
Initialize(w) ==
    /\ pc[w] = "initialize"
    /\ \E ret \in {PyBool(TRUE), PyBool(FALSE)} :
        /\ calls' = [calls EXCEPT ![w] = Append(@, Call("initialize", <<>>, ret))]
        /\ terminal' = IF Truthy(ret) THEN "up" ELSE terminal
        /\ AfterInitialize(w, ret)
    /\ UNCHANGED <<API_KEY, x_api_key, req, mt5>>

\* The conversion done before the try block: its error skips the finally clause.
ConversionErrorOutsideGuard(w) == Finish(w, Raised("ValueError"))

\* int(req.login) raises ValueError inside the try block.
ConversionError(w) == Leave(w, Raised("ValueError"))

\* A login failure that returns before the try block is entered.
AfterLoginEarlyReturn(w, ok) ==
    IF ~Truthy(ok)
    THEN Finish(w, Failure("mt5.login failed"))
    ELSE Continue(w, "account_info")

\* if not ok: return {"ok": False, "message": "mt5.login failed"}
AfterLogin(w, ok) ==
    IF ~Truthy(ok)
    THEN Leave(w, Failure("mt5.login failed"))
    ELSE Continue(w, "account_info")

\* The arguments of mt5.login(int(req.login), password=..., server=...).
LoginArgs(r) == <<IntOf(r.login), r.password, r.server>>

\* ok = mt5.login(int(req.login), password=req.password, server=req.server)
Login(w) ==
    /\ pc[w] = "login"
    /\ IF ~IntParses(req[w].login)
       THEN /\ ConversionError(w)
            /\ UNCHANGED calls
       ELSE \E ok \in {PyBool(TRUE), PyBool(FALSE)} :
            /\ calls' = [calls EXCEPT ![w] =
                            Append(@, Call("login", LoginArgs(req[w]), ok))]
            /\ AfterLogin(w, ok)
    /\ UNCHANGED <<API_KEY, terminal, x_api_key, req, mt5>>

\* info = mt5.account_info(); account_info = info._asdict() if info else {}
AccountInfo(w) ==
    /\ pc[w] = "account_info"
    /\ \/ \E info \in AccountInfos \cup {PyNone} :
            /\ calls' = [calls EXCEPT ![w] = Append(@, Call("account_info", <<>>, info))]
            /\ Leave(w, Success(IF Truthy(info) THEN AsDict(info) ELSE EmptyDict))
       \/ \E e \in BindingErrors :
            /\ calls' = [calls EXCEPT ![w] =
                    Append(@, Call("account_info", <<>>, [type |-> "raise", exc |-> e]))]
            /\ Leave(w, Raised(e))
    /\ UNCHANGED <<API_KEY, terminal, x_api_key, req, mt5>>

\* finally: mt5.shutdown() -- then the pending return or exception completes.
Shutdown(w) ==
    /\ pc[w] = "shutdown"
    /\ calls' = [calls EXCEPT ![w] = Append(@, Call("shutdown", <<>>, PyNone))]
    /\ terminal' = "down"
    /\ response' = [response EXCEPT ![w] = pending[w]]
    /\ pc' = [pc EXCEPT ![w] = "done"]
    /\ UNCHANGED <<API_KEY, x_api_key, req, mt5, pending>>

\* The response is sent and the thread is free for the next request.
Respond(w) ==
    /\ pc[w] = "done"
    /\ pc' = [pc EXCEPT ![w] = "idle"]
    /\ x_api_key' = [x_api_key EXCEPT ![w] = ""]
    /\ req' = [req EXCEPT ![w] = NoBody]
    /\ mt5' = [mt5 EXCEPT ![w] = "unbound"]
    /\ calls' = [calls EXCEPT ![w] = <<>>]
    /\ pending' = [pending EXCEPT ![w] = NoOutcome]
    /\ response' = [response EXCEPT ![w] = NoOutcome]
    /\ UNCHANGED <<API_KEY, terminal>>

Next ==
    \E w \in Workers :
        \/ Request(w)
        \/ Import(w)
        \/ Initialize(w)
        \/ Login(w)
        \/ AccountInfo(w)
        \/ Shutdown(w)
        \/ Respond(w)

Spec == Init /\ [][Next]_vars

----------------------------------------------------------------------------
(* What a finished request looks like                                      *)

Done(w) == pc[w] = "done"

Ops(w) == [i \in DOMAIN calls[w] |-> calls[w][i].op]

Count(w, op) == Cardinality({i \in DOMAIN calls[w] : calls[w][i].op = op})

Called(w, op) == Count(w, op) > 0

\* The request's call of `op` returned the Python boolean b.
ReturnedBool(w, op, b) ==
    \E i \in DOMAIN calls[w] :
        /\ calls[w][i].op = op
        /\ calls[w][i].ret.type = "bool"
        /\ calls[w][i].ret.val = b

LastOp(w) == IF calls[w] = <<>> THEN "none" ELSE calls[w][Len(calls[w])].op

IsBody(w) == response[w].status = 200

\* Position of each binding call in the only order the code allows.
Rank(op) ==
    CASE op = "initialize" -> 1
      [] op = "login" -> 2
      [] op = "account_info" -> 3
      [] op = "shutdown" -> 4

----------------------------------------------------------------------------
\* C1: a request whose x-api-key (the empty default included) differs from
\* the configured key ends with the 401 rejection "invalid api key", carries
\* no result body, never binds the module and makes no binding call.
C1_Rejected ==
    \A w \in Workers :
        (pc[w] # "idle" /\ x_api_key[w] # API_KEY) =>
            /\ Done(w)
            /\ response[w] = Rejection
            /\ "body" \notin DOMAIN response[w]
            /\ mt5[w] = "unbound"
            /\ calls[w] = <<>>

\* A request without the header has been rejected while another request,
\* carrying the key, is in the middle of its binding calls.
C1_Witness ==
    \E w, o \in Workers :
        /\ Done(w) /\ x_api_key[w] = "" /\ response[w].status = 401
        /\ pc[o] = "account_info"

\* C2: a request in which initialize() returned true has called shutdown()
\* exactly once when it ends, as its last binding call, whichever way the
\* guarded block was left; until then it is still inside the guarded block.
C2_ReleasedOnEveryExit ==
    \A w \in Workers :
        ReturnedBool(w, "initialize", TRUE) =>
            IF Done(w)
            THEN Count(w, "shutdown") = 1 /\ LastOp(w) = "shutdown"
            ELSE pc[w] \in {"login", "account_info", "shutdown"}
                    /\ Count(w, "shutdown") = 0

\* A request has ended with the exception account_info() raised, after shutdown.
C2_Witness ==
    \E w \in Workers :
        /\ Done(w)
        /\ response[w].status = 500
        /\ Ops(w) = <<"initialize", "login", "account_info", "shutdown">>

\* C3 as stated: when initialize() returns false the response carries the
\* literal message "initialize failed" and no other binding call is made.
C3_Original ==
    \A w \in Workers :
        (Done(w) /\ ReturnedBool(w, "initialize", FALSE)) =>
            /\ response[w] = Failure("initialize failed")
            /\ Ops(w) = <<"initialize">>

\* C3 amended: when initialize() returns false the response is exactly
\* {ok: false, message: "mt5.initialize failed"}, and login(), account_info()
\* and shutdown() are never invoked in that request.
C3_InitializeFailed ==
    \A w \in Workers :
        ReturnedBool(w, "initialize", FALSE) =>
            /\ Done(w)
            /\ x_api_key[w] = API_KEY /\ mt5[w] = "module"
            /\ response[w] = Failure("mt5.initialize failed")
            /\ Ops(w) = <<"initialize">>

C3_Witness ==
    \E w \in Workers :
        Done(w) /\ ReturnedBool(w, "initialize", FALSE) /\ IsBody(w)

\* C4 as stated: when login() returns false the response carries the literal
\* message "login failed" and the session is released exactly once.
C4_Original ==
    \A w \in Workers :
        (Done(w) /\ ReturnedBool(w, "login", FALSE)) =>
            /\ response[w] = Failure("login failed")
            /\ Ops(w) = <<"initialize", "login", "shutdown">>

\* C4 amended: when initialize() returned true and login() returns false the
\* response is exactly {ok: false, message: "mt5.login failed"},
\* account_info() is never invoked and shutdown() is invoked exactly once.
C4_LoginFailed ==
    \A w \in Workers :
        (Done(w) /\ ReturnedBool(w, "login", FALSE)) =>
            /\ ReturnedBool(w, "initialize", TRUE)
            /\ response[w] = Failure("mt5.login failed")
            /\ ~Called(w, "account_info")
            /\ Count(w, "shutdown") = 1

C4_Witness ==
    \E w \in Workers :
        Done(w) /\ ReturnedBool(w, "login", FALSE) /\ IsBody(w)
            /\ LastOp(w) = "shutdown"

\* C5: a request with the correct key whose import of the binding fails ends
\* with a normal response {ok: false, message: "MetaTrader5 not available:
\* <cause>"}, not a rejection, and makes no binding call at all.
C5_BindingUnavailable ==
    \A w \in Workers :
        (Done(w) /\ x_api_key[w] = API_KEY /\ mt5[w] = "unbound") =>
            /\ \E e \in ImportCauses :
                response[w] = Failure("MetaTrader5 not available: " \o e)
            /\ calls[w] = <<>>

C5_Witness ==
    \E w \in Workers :
        /\ Done(w) /\ x_api_key[w] = API_KEY /\ mt5[w] = "unbound"
        /\ response[w] = Failure("MetaTrader5 not available: No module named 'MetaTrader5'")

\* C6: when initialize() and login() both returned true and account_info()
\* returned, the response is {ok: true, account_info: M}; M has exactly the
\* returned record's fields with their values, or is empty when no record
\* was returned; shutdown() has been invoked once.
C6_AccountInfoRelayed ==
    \A w \in Workers :
        (Done(w) /\ Called(w, "account_info")
                 /\ calls[w][3].ret.type \in {"NoneType", "AccountInfo"}) =>
            LET info == calls[w][3].ret IN
            /\ ReturnedBool(w, "initialize", TRUE)
            /\ ReturnedBool(w, "login", TRUE)
            /\ IsBody(w)
            /\ DOMAIN response[w].body = {"ok", "account_info"}
            /\ response[w].body.ok = TRUE
            /\ LET M == response[w].body.account_info IN
               IF info.type = "NoneType"
               THEN DOMAIN M = {}
               ELSE /\ DOMAIN M = {info.fields[i] : i \in DOMAIN info.fields}
                    /\ \A i \in DOMAIN info.fields : M[info.fields[i]] = info.values[i]
            /\ Count(w, "shutdown") = 1

\* The scenario of the specification: balance 1000, currency USD relayed.
C6_Witness ==
    \E w \in Workers :
        /\ Done(w) /\ IsBody(w)
        /\ req[w] = [server |-> "Demo", login |-> <<"1","2","3","4","5">>,
                     password |-> "pw"]
        /\ Called(w, "account_info")
        /\ calls[w][3].ret.type = "AccountInfo"
        /\ response[w].body.account_info.balance = 1000
        /\ response[w].body.account_info.currency = "USD"

\* C7: every request ends with a structured result or the 401 rejection;
\* no exception leaves mt5_login as an unstructured server error.
C7_NeverThrows ==
    \A w \in Workers :
        Done(w) => response[w].status \in {200, 401}

\* C8 as stated: a non-numeric login raises its conversion error without the
\* shutdown step being run for that request.
C8_Original ==
    \A w \in Workers :
        (Done(w) /\ response[w] = Raised("ValueError")) =>
            Count(w, "shutdown") = 0

\* C8 amended: the conversion of login to an integer happens after a
\* successful initialize() and inside the release guard: when login is
\* non-numeric the conversion error leaves the request without login() or
\* account_info() being invoked and after shutdown() was invoked once.
C8_ConversionGuarded ==
    \A w \in Workers :
        (Done(w) /\ x_api_key[w] = API_KEY /\ ~IntParses(req[w].login)
                 /\ ReturnedBool(w, "initialize", TRUE)) =>
            /\ response[w] = Raised("ValueError")
            /\ Ops(w) = <<"initialize", "shutdown">>

C8_Witness ==
    \E w \in Workers :
        /\ Done(w)
        /\ req[w].login = <<"1","2","a">>
        /\ response[w].status = 500
        /\ LastOp(w) = "shutdown"

\* C9: nothing serialises the requests: while one request is between its
\* successful initialize() and its shutdown(), every binding call another
\* request has reached can be executed at once.
C9_NoSerialization ==
    \A a, b \in Workers :
        (a # b /\ pc[a] \in {"login", "account_info"}) =>
            /\ pc[b] = "initialize" => ENABLED Initialize(b)
            /\ pc[b] = "login" => ENABLED Login(b)
            /\ pc[b] = "shutdown" => ENABLED Shutdown(b)

\* Request a has initialized and not yet logged in, and the session it
\* opened has been shut down by request b in the meantime.
C9_Witness ==
    \E a, b \in Workers :
        /\ a # b
        /\ pc[a] = "login" /\ ReturnedBool(a, "initialize", TRUE)
        /\ Done(b) /\ LastOp(b) = "shutdown"
        /\ terminal = "down"

\* int() of the login strings of Bodies that it accepts (evaluated in Python).
ExpectedId(login) ==
    CASE login = <<"1","2","3","4","5">> -> 12345
      [] login = <<" ","-","7","_","0"," ">> -> 0 - 70

\* C10: a response with ok: true is produced only if, in that request, the
\* key matched, the binding loaded, initialize() returned true and login()
\* was called with the integer value of the login field, the password and
\* the server, and returned true; the binding calls of a request occur in
\* the order initialize, login, account_info, shutdown, each at most once.
C10_OkOnlyAfterLogin ==
    \A w \in Workers :
        /\ (Done(w) /\ IsBody(w) /\ response[w].body.ok) =>
            /\ x_api_key[w] = API_KEY
            /\ mt5[w] = "module"
            /\ Len(calls[w]) >= 2
            /\ calls[w][1] = Call("initialize", <<>>, PyBool(TRUE))
            /\ calls[w][2].op = "login"
            /\ calls[w][2].args =
                    <<ExpectedId(req[w].login), req[w].password, req[w].server>>
            /\ calls[w][2].ret = PyBool(TRUE)
        /\ \A i, j \in DOMAIN calls[w] :
                i < j => Rank(calls[w][i].op) < Rank(calls[w][j].op)

\* A negative login id was passed on and the request answered ok: true.
C10_Witness ==
    \E w \in Workers :
        /\ Done(w) /\ IsBody(w) /\ response[w].body.ok
        /\ req[w].login = <<" ","-","7","_","0"," ">>
        /\ Len(calls[w]) = 4

====
